---- MODULE Spec2Model ----
(***************************************************************************)
(* gpdc-dynamodb: CacheManager (get / put / delete) over a DynamoDB table. *)
(*                                                                         *)
(* src/index.js holds two definitions of the class: the first at lines     *)
(* 7-211, the second at lines 226-430.  `definition` says which one a      *)
(* behaviour runs.  The table is the DynamoDB table behind documentClient: *)
(* every documentClient call is one atomic step of the table, taken some   *)
(* time after the request was issued, and the caller resumes in a later    *)
(* step (each `await` is a suspension point).                              *)
(***************************************************************************)
EXTENDS Integers, Sequences, FiniteSets, TLC

VARIABLES
    definition,   \* 1: class at src/index.js:7-211, 2: class at src/index.js:226-430
    manager,      \* the constructed CacheManager: defaultTTLInSeconds and the two counters' flags
    scope,        \* the callers of this run and the arguments they pass
    clock,        \* Date.now(), in milliseconds
    table,        \* the DynamoDB table: KeyMD5 -> item, for the items present
    proc,         \* per caller: the invocation in progress, its locals and its position
    last,         \* per cache key: the last invocation that completed (history, not program state)
    ops           \* number of invocations made so far

vars == <<definition, manager, scope, clock, table, proc, last, ops>>

----------------------------------------------------------------------------
(* Bounds of the model *)

MaxOps == 3          \* invocations per behaviour
MaxTicks == 4        \* half seconds the clock may advance
MaxTTL == 1          \* largest ttlInSeconds a caller passes
MaxRecency == 1      \* largest recencyInSeconds a caller passes
DefaultTTL == 2      \* the defaultTTLInSeconds given to the constructor
StartSeconds == 10   \* Date.now() / 1000 when the run starts

----------------------------------------------------------------------------
(* JavaScript values, as <<type, payload>>; text is a sequence of characters *)

Null == <<"null">>
Undefined == <<"undefined">>
Num7 == <<"number", <<"7">>>>
Str7 == <<"string", <<"7">>>>
Arr7 == <<"array", <<"7">>>>

\* mutant: `null === x`, which undefined passes
IsNullish_StrictNull(x) == x[1] = "null"

\* `null == x` in JavaScript: true of null and of undefined
IsNullish(x) == x[1] \in {"null", "undefined"}

\* the values callers pass to put
Values == {Null, Undefined, Num7, Str7}

\* an optional numeric argument: <<>> when omitted (or null), <<n>> otherwise
IsGiven(arg) == Len(arg) = 1

KeyA == <<"a">>
KeyB == <<"b">>

\* logger.stringify(value): the JSON text of the value
stringify(value) ==
    CASE value[1] = "number" -> value[2]
      [] value[1] = "string" -> <<"\"">> \o value[2] \o <<"\"">>
      [] value[1] = "array"  -> <<"[">> \o value[2] \o <<"]">>
      [] OTHER               -> <<"n", "u", "l", "l">>

\* JSON.parse(text)
JSONparse(text) ==
    IF text = <<"n", "u", "l", "l">> THEN Null
    ELSE IF Head(text) = "\"" THEN <<"string", SubSeq(text, 2, Len(text) - 1)>>
    ELSE IF Head(text) = "[" THEN <<"array", SubSeq(text, 2, Len(text) - 1)>>
    ELSE <<"number", text>>

\* md5(bytes): a digest, one per input (collisions are outside the model)
md5(bytes) == <<"md5">> \o bytes

\* Math.floor(ms / 1000)
FloorSeconds(ms) == ms \div 1000

----------------------------------------------------------------------------
(* The table and its items *)

NoItem == <<>>

\* the item stored under keyMD5, as a sequence of zero or one item
ItemOf(tbl, keyMD5) == IF keyMD5 \in DOMAIN tbl THEN <<tbl[keyMD5]>> ELSE NoItem

\* mutant: storing an item over one with the same ValueMD5 counts a redundancy instead
WithItem_CountsSameValue(tbl, keyMD5, item) ==
    [h \in (DOMAIN tbl) \cup {keyMD5} |->
        IF h # keyMD5 THEN tbl[h]
        ELSE IF keyMD5 \in DOMAIN tbl /\ tbl[keyMD5].ValueMD5 = item.ValueMD5
             THEN [tbl[keyMD5] EXCEPT !.redundancy = tbl[keyMD5].redundancy + 1]
             ELSE item]

\* the table with `item` stored under keyMD5 (an upsert)
WithItem(tbl, keyMD5, item) ==
    [h \in (DOMAIN tbl) \cup {keyMD5} |-> IF h = keyMD5 THEN item ELSE tbl[h]]

\* mutant: the delete empties the table
WithoutItem_ClearsTable(tbl, keyMD5) == <<>>

\* mutant: the delete removes nothing
WithoutItem_KeepsItem(tbl, keyMD5) == tbl

\* the table without the item under keyMD5
WithoutItem(tbl, keyMD5) == [h \in (DOMAIN tbl) \ {keyMD5} |-> tbl[h]]

\* mutant: 'ExpiryTime >= :timeNowInSeconds'
GetFilterExpression_AtExpiry(item, timeNowInSeconds, recentTimeInMilliseconds) ==
    /\ item.ExpiryTime >= timeNowInSeconds
    /\ item.timeUpdated > recentTimeInMilliseconds

\* FilterExpression of get's query:
\* 'ExpiryTime > :timeNowInSeconds and timeUpdated > :recentTimeInMilliseconds'
GetFilterExpression(item, timeNowInSeconds, recentTimeInMilliseconds) ==
    /\ item.ExpiryTime > timeNowInSeconds
    /\ item.timeUpdated > recentTimeInMilliseconds

\* ProjectionExpression of get's query: 'cacheValue, ExpiryTime'
GetProjection(item) == [cacheValue |-> item.cacheValue, ExpiryTime |-> item.ExpiryTime]

\* mutant: ExpiryTime, in seconds, compared with a time in milliseconds
PutFilterExpression_Millis(item, timeNowInSeconds, valueMD5) ==
    /\ item.ExpiryTime > timeNowInSeconds * 1000
    /\ item.ValueMD5 = valueMD5

\* FilterExpression of put's query:
\* 'ExpiryTime > :timeNowInSeconds and ValueMD5 = :valueMD5'
PutFilterExpression(item, timeNowInSeconds, valueMD5) ==
    /\ item.ExpiryTime > timeNowInSeconds
    /\ item.ValueMD5 = valueMD5

\* ProjectionExpression of put's query: 'ValueMD5, ttlInSeconds, ExpiryTime'
PutProjection(item) ==
    [ValueMD5 |-> item.ValueMD5, ttlInSeconds |-> item.ttlInSeconds,
     ExpiryTime |-> item.ExpiryTime]

\* mutant: the update also moves timeUpdated
DownloadsUpdate_TouchesUpdated(item) ==
    [item EXCEPT !.downloads = item.downloads + 1, !.timeUpdated = item.timeUpdated + 1]

\* UpdateExpression of get: 'set downloads = downloads + :one'
DownloadsUpdate(item) == [item EXCEPT !.downloads = item.downloads + 1]

\* mutant: the update also sets downloads back to 0
RedundancyUpdate_ResetsDownloads(item, timeNowInSeconds, ExpiryTime) ==
    [item EXCEPT !.redundancy = item.redundancy + 1,
                 !.timeUpdated = timeNowInSeconds,
                 !.ExpiryTime = ExpiryTime,
                 !.downloads = 0]

\* mutant: the update also sets timeCreated
RedundancyUpdate_TouchesCreated(item, timeNowInSeconds, ExpiryTime) ==
    [item EXCEPT !.redundancy = item.redundancy + 1,
                 !.timeUpdated = timeNowInSeconds,
                 !.ExpiryTime = ExpiryTime,
                 !.timeCreated = timeNowInSeconds]

\* mutant: the update leaves ExpiryTime as it was
RedundancyUpdate_KeepsExpiry(item, timeNowInSeconds, ExpiryTime) ==
    [item EXCEPT !.redundancy = item.redundancy + 1,
                 !.timeUpdated = timeNowInSeconds]

\* UpdateExpression of put:
\* 'set redundancy = redundancy + :one, timeUpdated = :timeNowInSeconds, ExpiryTime = :ExpiryTime'
RedundancyUpdate(item, timeNowInSeconds, ExpiryTime) ==
    [item EXCEPT !.redundancy = item.redundancy + 1,
                 !.timeUpdated = timeNowInSeconds,
                 !.ExpiryTime = ExpiryTime]

\* mutant: the stored ttl is added to the item's old ExpiryTime
ExtendedExpiryTime_FromOldExpiry(timeNowInSeconds, dbItem) ==
    dbItem.ExpiryTime + dbItem.ttlInSeconds

\* :ExpiryTime of put's update: timeNowInSeconds + dbItem.ttlInSeconds
ExtendedExpiryTime(timeNowInSeconds, dbItem) == timeNowInSeconds + dbItem.ttlInSeconds

\* params.Item of put's full write
NewItem(key, keyMD5, valueMD5, valueToCache, ttlInSeconds, timeNowInMilliseconds) ==
    [KeyMD5 |-> keyMD5,
     ValueMD5 |-> valueMD5,
     cacheKey |-> key,
     cacheValue |-> valueToCache,
     ttlInSeconds |-> ttlInSeconds,
     ExpiryTime |-> FloorSeconds(timeNowInMilliseconds) + ttlInSeconds,
     timeCreated |-> timeNowInMilliseconds,
     timeUpdated |-> timeNowInMilliseconds,
     downloads |-> 0,
     redundancy |-> 0]

\* mutant: `0 > ttlInSeconds`, which keeps a ttl of zero
ResolveTTL_KeepsZero(ttlArg, defaultTTLInSeconds) ==
    IF ~IsGiven(ttlArg) \/ 0 > ttlArg[1] THEN defaultTTLInSeconds ELSE ttlArg[1]

\* put's first statement: a missing, zero or negative ttlInSeconds becomes the default
ResolveTTL(ttlArg, defaultTTLInSeconds) ==
    IF ~IsGiven(ttlArg) \/ 0 >= ttlArg[1] THEN defaultTTLInSeconds ELSE ttlArg[1]

\* mutant: `0 > recencyInSeconds`, which lets a recency of zero through
RejectsRecency_OnlyNegative(recencyArg) == IsGiven(recencyArg) /\ 0 > recencyArg[1]

\* get's guard: a recencyInSeconds that is given and not positive
RejectsRecency(recencyArg) == IsGiven(recencyArg) /\ 0 >= recencyArg[1]

\* mutant: the recency is subtracted in seconds from a time in milliseconds
RecentTime_InSeconds(recencyArg, timeNowInMilliseconds) ==
    IF ~IsGiven(recencyArg) THEN 0 ELSE timeNowInMilliseconds - recencyArg[1]

\* get's recentTimeInMilliseconds
RecentTime(recencyArg, timeNowInMilliseconds) ==
    IF ~IsGiven(recencyArg) THEN 0 ELSE timeNowInMilliseconds - (recencyArg[1] * 1000)

----------------------------------------------------------------------------
(* Callers *)

\* what a call returned
NoResult == <<"none">>
ReturnsNull == <<"null">>
ReturnsTrue == <<"true">>
ReturnsFalse == <<"false">>
ThrowsReferenceError == <<"throws", "ReferenceError">>
GetResult(value, ExpiryTime) == <<"hit", value, ExpiryTime>>
PutResult(keyMD5, ExpiryTime) == <<"put", keyMD5, ExpiryTime>>

\* a response of documentClient: an error thrown, or the Items / Attributes returned
NoResponse == <<>>
ErrorResponse == <<[err |-> TRUE, Items |-> <<>>, Attributes |-> <<>>]>>
OkResponse(items, attributes) == <<[err |-> FALSE, Items |-> items, Attributes |-> attributes]>>

NoSummary ==
    [op |-> "none", value |-> Null, result |-> NoResult, calls |-> <<>>, failed |-> FALSE,
     afterDelete |-> "no"]

Idle ==
    [op |-> "none", pc |-> "idle", key |-> <<>>, value |-> Null, ttlArg |-> <<>>,
     recencyArg |-> <<>>, keyMD5 |-> <<>>, valueToCache |-> <<>>, valueMD5 |-> <<>>,
     ttlInSeconds |-> 0, timeNowInMilliseconds |-> 0, timeNowInSeconds |-> 0,
     recentTimeInMilliseconds |-> 0, dbItem |-> NoItem, Item |-> NoItem,
     resp |-> NoResponse, result |-> NoResult,
     \* history of the invocation, not read by the program:
     calls |-> <<>>, failed |-> FALSE, seen |-> NoItem, prev |-> NoSummary,
     \* for a delete: the callers whose put of the same key was in flight when it was called
     putsInFlight |-> {}]

\* what `last` keeps of a completed invocation
Summary(p) ==
    [op |-> p.op, value |-> p.value, result |-> p.result, calls |-> p.calls,
     failed |-> p.failed,
     \* whether a delete of the key has returned true with no put of the key called
     \* since: "no", "item" when such a delete removed an item, "yes" otherwise
     afterDelete |-> IF p.op = "delete" /\ p.result = ReturnsTrue /\ p.seen # NoItem
                     THEN "item"
                     ELSE IF p.op = "delete" /\ p.result = ReturnsTrue /\ p.prev.afterDelete = "no"
                     THEN "yes"
                     ELSE IF p.op \in {"get", "delete"} THEN p.prev.afterDelete
                     ELSE "no"]

TtlArgs == {<<>>} \cup {<<n>> : n \in -1..MaxTTL}
RecencyArgs == {<<>>} \cup {<<n>> : n \in -1..MaxRecency}

CanCall(c) ==
    /\ c \in scope.clients
    /\ proc[c].pc \in {"idle", "done"}
    /\ ops < MaxOps

\* the invocation of caller c returns `result`
Complete(c, p, result) ==
    LET q == [p EXCEPT !.pc = "done", !.result = result] IN
    /\ proc' = [proc EXCEPT ![c] = q]
    /\ last' = [last EXCEPT ![q.key] = Summary(q)]

\* the invocation of caller c issues a documentClient call and awaits it
Await(c, p, pc, method) ==
    /\ proc' = [proc EXCEPT ![c] = [p EXCEPT !.pc = pc, !.resp = NoResponse,
                                               !.calls = Append(p.calls, method)]]
    /\ UNCHANGED last

Awaiting(c, pc) == proc[c].pc = pc /\ proc[c].resp = NoResponse
Resumes(c, pc) == proc[c].pc = pc /\ proc[c].resp # NoResponse

Respond(c, response) ==
    proc' = [proc EXCEPT ![c].resp = response,
                         ![c].failed = proc[c].failed \/ response[1].err]

----------------------------------------------------------------------------
(* Time and the table's own steps *)

\* half a second passes
Tick ==
    /\ clock < (StartSeconds * 1000) + (MaxTicks * 500)
    /\ clock' = clock + 500
    /\ UNCHANGED <<definition, manager, scope, table, proc, last, ops>>

\* DynamoDB's time-to-live on ExpiryTime: an item whose ExpiryTime has passed is
\* removed by the table at some later time of its own choosing
TtlSweep ==
    \E keyMD5 \in DOMAIN table :
        /\ table[keyMD5].ExpiryTime < FloorSeconds(clock)
        /\ table' = WithoutItem(table, keyMD5)
        /\ UNCHANGED <<definition, manager, scope, clock, proc, last, ops>>

\* documentClient.query(params): the table answers the query of caller c
\* (KeyConditionExpression 'KeyMD5 = :keyMD5', the caller's filter and projection)
documentClientQuery(c) ==
    /\ Awaiting(c, "get53") \/ Awaiting(c, "put130")
    /\ LET p == proc[c]
           found == ItemOf(table, p.keyMD5)
           items ==
               IF found = NoItem THEN <<>>
               ELSE IF p.pc = "get53"
                    THEN IF GetFilterExpression(found[1], p.timeNowInSeconds,
                                                p.recentTimeInMilliseconds)
                         THEN <<GetProjection(found[1])>> ELSE <<>>
                    ELSE IF PutFilterExpression(found[1], p.timeNowInSeconds, p.valueMD5)
                         THEN <<PutProjection(found[1])>> ELSE <<>>
       IN \/ proc' = [proc EXCEPT ![c].resp = OkResponse(items, <<>>),
                                  ![c].seen = found]
          \/ Respond(c, ErrorResponse)
    /\ UNCHANGED <<definition, manager, scope, clock, table, last, ops>>

\* documentClient.update(params): the table applies the update of caller c to the item
\* under Key; the expression reads an attribute of the item, so it is an error when
\* there is no item.  ReturnValues: 'UPDATED_NEW'
documentClientUpdate(c) ==
    /\ Awaiting(c, "get81") \/ Awaiting(c, "put153")
    /\ LET p == proc[c]
           found == ItemOf(table, p.keyMD5)
           updated ==
               IF p.pc = "get81" THEN DownloadsUpdate(found[1])
               ELSE RedundancyUpdate(found[1], p.timeNowInSeconds,
                                     ExtendedExpiryTime(p.timeNowInSeconds, p.dbItem[1]))
           attributes ==
               IF p.pc = "get81" THEN [downloads |-> updated.downloads]
               ELSE [redundancy |-> updated.redundancy, timeUpdated |-> updated.timeUpdated,
                     ExpiryTime |-> updated.ExpiryTime]
       IN \/ /\ found # NoItem
             /\ table' = WithItem(table, p.keyMD5, updated)
             /\ Respond(c, OkResponse(<<>>, <<attributes>>))
          \/ /\ Respond(c, ErrorResponse)
             /\ UNCHANGED table
    /\ UNCHANGED <<definition, manager, scope, clock, last, ops>>

\* documentClient.put(params): the table stores params.Item of caller c
documentClientPut(c) ==
    /\ Awaiting(c, "put179")
    /\ \/ /\ table' = WithItem(table, proc[c].keyMD5, proc[c].Item[1])
          /\ Respond(c, OkResponse(<<>>, <<>>))
       \/ /\ Respond(c, ErrorResponse)
          /\ UNCHANGED table
    /\ UNCHANGED <<definition, manager, scope, clock, last, ops>>

\* documentClient.delete(params): the table removes the item under Key, if any
documentClientDelete(c) ==
    /\ Awaiting(c, "delete203")
    /\ \/ /\ table' = WithoutItem(table, proc[c].keyMD5)
          /\ proc' = [proc EXCEPT ![c].resp = OkResponse(<<>>, <<>>),
                                  ![c].seen = ItemOf(table, proc[c].keyMD5)]
       \/ /\ Respond(c, ErrorResponse)
          /\ UNCHANGED table
    /\ UNCHANGED <<definition, manager, scope, clock, last, ops>>

----------------------------------------------------------------------------
(* CacheManager.get *)

\* get(key, recencyInSeconds) up to its first await (the same in both definitions)
get(c, key, recencyArg) ==
    /\ CanCall(c)
    /\ key \in scope.keys
    /\ recencyArg \in scope.recencyArgs
    /\ ops' = ops + 1
    /\ LET timeNowInMilliseconds == clock
           p == [Idle EXCEPT !.op = "get", !.key = key, !.recencyArg = recencyArg,
                             !.prev = last[key]]
       IN IF RejectsRecency(recencyArg)
          THEN Complete(c, p, ReturnsNull)
          ELSE Await(c, [p EXCEPT !.keyMD5 = md5(key),
                                  !.timeNowInMilliseconds = timeNowInMilliseconds,
                                  !.timeNowInSeconds = FloorSeconds(timeNowInMilliseconds),
                                  !.recentTimeInMilliseconds =
                                      RecentTime(recencyArg, timeNowInMilliseconds)],
                     "get53", "query")
    /\ UNCHANGED <<definition, manager, scope, clock, table>>

\* what get returns once it holds dbItem
getReturn(dbItem) == GetResult(JSONparse(dbItem.cacheValue), dbItem.ExpiryTime)

\* mutant: a query that threw is issued once more
getAfterQuery_QueriesAgain(c) ==
    /\ Resumes(c, "get53")
    /\ LET p == proc[c]
           dbRecord == p.resp[1]
       IN IF dbRecord.err
          THEN Await(c, p, "get53", "query")
          ELSE IF Len(dbRecord.Items) = 0
          THEN Complete(c, p, ReturnsNull)
          ELSE LET q == [p EXCEPT !.dbItem = <<dbRecord.Items[1]>>] IN
               IF manager.downLoadCounter = TRUE
               THEN Await(c, q, "get81", "update")
               ELSE Complete(c, q, getReturn(q.dbItem[1]))
    /\ UNCHANGED <<definition, manager, scope, clock, table, ops>>

\* get resumes with the query's answer
getAfterQuery(c) ==
    /\ Resumes(c, "get53")
    /\ LET p == proc[c]
           dbRecord == p.resp[1]
       IN IF dbRecord.err \/ Len(dbRecord.Items) = 0
          THEN Complete(c, p, ReturnsNull)
          ELSE LET q == [p EXCEPT !.dbItem = <<dbRecord.Items[1]>>] IN
               IF manager.downLoadCounter = TRUE
               THEN Await(c, q, "get81", "update")
               ELSE Complete(c, q, getReturn(q.dbItem[1]))
    /\ UNCHANGED <<definition, manager, scope, clock, table, ops>>

\* mutant: an update that threw turns the get into a miss
getAfterUpdate_SurfacesFailure(c) ==
    /\ Resumes(c, "get81")
    /\ Complete(c, proc[c], IF proc[c].resp[1].err THEN ReturnsNull
                            ELSE getReturn(proc[c].dbItem[1]))
    /\ UNCHANGED <<definition, manager, scope, clock, table, ops>>

\* get resumes after the download counter's update, whatever its outcome
getAfterUpdate(c) ==
    /\ Resumes(c, "get81")
    /\ Complete(c, proc[c], getReturn(proc[c].dbItem[1]))
    /\ UNCHANGED <<definition, manager, scope, clock, table, ops>>

----------------------------------------------------------------------------
(* CacheManager.put *)

\* put(key, value, ttlInSeconds) up to its first await.  In the second definition the
\* query is `documentClient.query(...)`, with no `this.` and no such variable in scope:
\* a ReferenceError inside the try block, which the catch turns into `return null`
put(c, key, value, ttlArg) ==
    /\ CanCall(c)
    /\ key \in scope.keys
    /\ value \in scope.values
    /\ ttlArg \in scope.ttlArgs
    /\ ops' = ops + 1
    /\ LET ttlInSeconds == ResolveTTL(ttlArg, manager.defaultTTLInSeconds)
           p == [Idle EXCEPT !.op = "put", !.key = key, !.value = value, !.ttlArg = ttlArg,
                             !.ttlInSeconds = ttlInSeconds,
                             !.prev = last[key]]
           valueToCache == stringify(value)
           timeNowInMilliseconds == clock
           q == [p EXCEPT !.valueToCache = valueToCache,
                          !.keyMD5 = md5(key),
                          !.valueMD5 = md5(valueToCache),
                          !.timeNowInMilliseconds = timeNowInMilliseconds,
                          !.timeNowInSeconds = FloorSeconds(timeNowInMilliseconds)]
       IN IF IsNullish(value)
          THEN Complete(c, p, ReturnsNull)
          ELSE IF definition = 2
          THEN Complete(c, q, ReturnsNull)
          ELSE Await(c, q, "put130", "query")
    /\ UNCHANGED <<definition, manager, scope, clock, table>>

\* mutant: a query that threw is taken for a query without a match
putAfterQuery_FallsThrough(c) ==
    /\ Resumes(c, "put130")
    /\ LET p == proc[c]
           dbRecord == p.resp[1]
       IN IF ~dbRecord.err /\ Len(dbRecord.Items) # 0
          THEN LET q == [p EXCEPT !.dbItem = <<dbRecord.Items[1]>>] IN
               IF manager.redundancyCounter # TRUE
               THEN Complete(c, q, PutResult(q.keyMD5, q.dbItem[1].ExpiryTime))
               ELSE Await(c, q, "put153", "update")
          ELSE LET timeNowInMilliseconds == clock
                   Item == NewItem(p.key, p.keyMD5, p.valueMD5, p.valueToCache,
                                   p.ttlInSeconds, timeNowInMilliseconds)
               IN Await(c, [p EXCEPT !.Item = <<Item>>], "put179", "put")
    /\ UNCHANGED <<definition, manager, scope, clock, table, ops>>

\* put resumes with the answer of its query: a match is returned as it is or
\* extended, no match leads to the full write
putAfterQuery(c) ==
    /\ Resumes(c, "put130")
    /\ LET p == proc[c]
           dbRecord == p.resp[1]
       IN IF dbRecord.err
          THEN Complete(c, p, ReturnsNull)
          ELSE IF Len(dbRecord.Items) # 0
          THEN LET q == [p EXCEPT !.dbItem = <<dbRecord.Items[1]>>] IN
               IF manager.redundancyCounter # TRUE
               THEN Complete(c, q, PutResult(q.keyMD5, q.dbItem[1].ExpiryTime))
               ELSE Await(c, q, "put153", "update")
          ELSE LET timeNowInMilliseconds == clock
                   Item == NewItem(p.key, p.keyMD5, p.valueMD5, p.valueToCache,
                                   p.ttlInSeconds, timeNowInMilliseconds)
               IN Await(c, [p EXCEPT !.Item = <<Item>>], "put179", "put")
    /\ UNCHANGED <<definition, manager, scope, clock, table, ops>>

\* mutant: an update that threw leads to the full write
putAfterUpdate_FallsThrough(c) ==
    /\ Resumes(c, "put153")
    /\ LET p == proc[c]
           data == p.resp[1]
       IN IF data.err
          THEN LET timeNowInMilliseconds == clock
                   Item == NewItem(p.key, p.keyMD5, p.valueMD5, p.valueToCache,
                                   p.ttlInSeconds, timeNowInMilliseconds)
               IN Await(c, [p EXCEPT !.Item = <<Item>>], "put179", "put")
          ELSE Complete(c, p, PutResult(p.keyMD5, data.Attributes[1].ExpiryTime))
    /\ UNCHANGED <<definition, manager, scope, clock, table, ops>>

\* put resumes after the update that extends the matching item
putAfterUpdate(c) ==
    /\ Resumes(c, "put153")
    /\ LET p == proc[c]
           data == p.resp[1]
       IN IF data.err
          THEN Complete(c, p, ReturnsNull)
          ELSE Complete(c, p, PutResult(p.keyMD5, data.Attributes[1].ExpiryTime))
    /\ UNCHANGED <<definition, manager, scope, clock, table, ops>>

\* mutant: a full write that threw is issued once more
putAfterPut_Retries(c) ==
    /\ Resumes(c, "put179")
    /\ LET p == proc[c] IN
       IF p.resp[1].err
       THEN Await(c, p, "put179", "put")
       ELSE Complete(c, p, PutResult(p.keyMD5, p.Item[1].ExpiryTime))
    /\ UNCHANGED <<definition, manager, scope, clock, table, ops>>

\* put resumes after the full write
putAfterPut(c) ==
    /\ Resumes(c, "put179")
    /\ LET p == proc[c] IN
       IF p.resp[1].err
       THEN Complete(c, p, ReturnsNull)
       ELSE Complete(c, p, PutResult(p.keyMD5, p.Item[1].ExpiryTime))
    /\ UNCHANGED <<definition, manager, scope, clock, table, ops>>

----------------------------------------------------------------------------
(* CacheManager.delete *)

\* delete(key) up to its await.  The second definition begins by reading
\* recencyInSeconds, which delete does not declare: a ReferenceError outside any try
\* block, so the call throws
delete(c, key) ==
    /\ CanCall(c)
    /\ key \in scope.keys
    /\ ops' = ops + 1
    /\ LET p == [Idle EXCEPT !.op = "delete", !.key = key, !.prev = last[key],
                             !.putsInFlight =
                                 {d \in scope.clients \ {c} :
                                     /\ proc[d].op = "put" /\ proc[d].key = key
                                     /\ proc[d].pc \notin {"idle", "done"}}]
       IN IF definition = 2
          THEN Complete(c, p, ThrowsReferenceError)
          ELSE Await(c, [p EXCEPT !.keyMD5 = md5(key)], "delete203", "delete")
    /\ UNCHANGED <<definition, manager, scope, clock, table>>

\* delete resumes: true, or false when the call threw
deleteAfterDelete(c) ==
    /\ Resumes(c, "delete203")
    /\ Complete(c, proc[c], IF proc[c].resp[1].err THEN ReturnsFalse ELSE ReturnsTrue)
    /\ UNCHANGED <<definition, manager, scope, clock, table, ops>>

----------------------------------------------------------------------------
(* Specifications *)

Clients == {1, 2}
Keys == {KeyA, KeyB}

\* the state after `new CacheManager(documentClient, tableName, ...)`, with an empty table
InitWith(clients, keys, values, ttlArgs, recencyArgs) ==
    /\ definition \in {1, 2}
    /\ manager \in [defaultTTLInSeconds : {DefaultTTL},
                    downLoadCounter : BOOLEAN, redundancyCounter : BOOLEAN]
    /\ scope = [clients |-> clients, keys |-> keys, values |-> values,
                ttlArgs |-> ttlArgs, recencyArgs |-> recencyArgs]
    /\ clock = StartSeconds * 1000
    /\ table = <<>>
    /\ proc = [c \in Clients |-> Idle]
    /\ last = [k \in Keys |-> NoSummary]
    /\ ops = 0

\* one caller, one key: invocations follow one another
Init == InitWith({1}, {KeyA}, Values, TtlArgs, RecencyArgs)

Next ==
    \/ Tick
    \/ TtlSweep
    \/ \E c \in Clients :
        \/ \E key \in Keys, recencyArg \in RecencyArgs : get(c, key, recencyArg)
        \/ \E key \in Keys, value \in Values, ttlArg \in TtlArgs : put(c, key, value, ttlArg)
        \/ \E key \in Keys : delete(c, key)
        \/ documentClientQuery(c)
        \/ documentClientUpdate(c)
        \/ documentClientPut(c)
        \/ documentClientDelete(c)
        \/ getAfterQuery(c)
        \/ getAfterUpdate(c)
        \/ putAfterQuery(c)
        \/ putAfterUpdate(c)
        \/ putAfterPut(c)
        \/ deleteAfterDelete(c)

Spec == Init /\ [][Next]_vars

\* two callers at once on one key, both counters on (the constructor's defaults): their
\* store calls interleave in any order
InitConcurrent ==
    /\ InitWith({1, 2}, {KeyA}, {Num7}, {<<1>>}, {<<>>})
    /\ manager.downLoadCounter = TRUE
    /\ manager.redundancyCounter = TRUE

SpecConcurrent == InitConcurrent /\ [][Next]_vars

\* the table answers the call caller c awaits: the promise settles, one way or the other
StoreAnswers(c) ==
    \/ documentClientQuery(c)
    \/ documentClientUpdate(c)
    \/ documentClientPut(c)
    \/ documentClientDelete(c)

\* the invocation of caller c resumes after its await
CallerResumes(c) ==
    \/ getAfterQuery(c)
    \/ getAfterUpdate(c)
    \/ putAfterQuery(c)
    \/ putAfterUpdate(c)
    \/ putAfterPut(c)
    \/ deleteAfterDelete(c)

\* the first definition, one caller: every documentClient call is answered (its promise
\* resolves or rejects) and an invocation whose await has settled is resumed
InitFair == InitWith({1}, {KeyA}, {Num7}, {<<1>>}, {<<>>}) /\ definition = 1

SpecFair ==
    /\ InitFair
    /\ [][Next]_vars
    /\ \A c \in Clients : WF_vars(StoreAnswers(c)) /\ WF_vars(CallerResumes(c))

\* an item that a put of 7 with ttlInSeconds = 1 stored under KeyA when the clock was at
\* StartSeconds
LeftoverItem ==
    NewItem(KeyA, md5(KeyA), md5(stringify(Num7)), stringify(Num7), 1, StartSeconds * 1000)

\* a CacheManager constructed over a table that already holds LeftoverItem, by now
\* expired, half a second before the end of the time the model covers
InitLate(clients, keys, values) ==
    /\ definition = 1
    /\ manager = [defaultTTLInSeconds |-> DefaultTTL,
                  downLoadCounter |-> TRUE, redundancyCounter |-> TRUE]
    /\ scope = [clients |-> clients, keys |-> keys, values |-> values,
                ttlArgs |-> {<<1>>}, recencyArgs |-> {<<>>}]
    /\ clock = (StartSeconds * 1000) + ((MaxTicks - 1) * 500)
    /\ table = WithItem(<<>>, md5(KeyA), LeftoverItem)
    /\ proc = [c \in Clients |-> Idle]
    /\ last = [k \in Keys |-> NoSummary]
    /\ ops = 0

\* two callers at once on two keys
InitTwoKeys == InitLate({1, 2}, {KeyA, KeyB}, {Num7})

SpecTwoKeys == InitTwoKeys /\ [][Next]_vars

\* two callers at once on one key, putting two different values
InitTwoValues == InitLate({1, 2}, {KeyA}, {Num7, Str7})

SpecTwoValues == InitTwoValues /\ [][Next]_vars

----------------------------------------------------------------------------
(* Claims.  Under Spec one caller works on one key, so invocations follow one      *)
(* another: proc[c].prev is the invocation that completed just before the one in   *)
(* proc[c], and proc[c].seen is the item the table held when it answered the       *)
(* invocation's query (or delete).                                                 *)

Returned(p, op) == p.pc = "done" /\ p.op = op

\* the table held, for the query of put p, an unexpired item with the value's fingerprint
MatchedAtQuery(p) ==
    /\ p.seen # NoItem
    /\ p.seen[1].ExpiryTime > p.timeNowInSeconds
    /\ p.seen[1].ValueMD5 = md5(stringify(p.value))

\* C1: round trip.  A put of a non-null value, none of whose store calls fails, returns
\* {keyMD5, ExpiryTime} with ExpiryTime = now in seconds + the effective ttl (now taken
\* between the call and the return); and a get without recency made right after such a put,
\* with no time elapsed and no failing store call, returns that value and that ExpiryTime.
C1_RoundTrip ==
    \A c \in Clients :
        LET p == proc[c] IN
        /\ (Returned(p, "put") /\ ~IsNullish(p.value) /\ ~p.failed) =>
              /\ p.result[1] = "put"
              /\ p.result[2] = md5(p.key)
              /\ p.result[3] >= p.timeNowInSeconds + p.ttlInSeconds
              /\ p.result[3] <= FloorSeconds(clock) + p.ttlInSeconds
        /\ (/\ Returned(p, "get") /\ ~IsGiven(p.recencyArg) /\ ~p.failed
            /\ p.prev.op = "put" /\ p.prev.result[1] = "put"
            /\ clock = StartSeconds * 1000) =>
              p.result = GetResult(p.prev.value, p.prev.result[3])

\* C2: a get returns a hit only if the table, when it answered the get's query, held an
\* item for the key whose ExpiryTime is strictly greater than the time in seconds the get
\* took when called.  So a get of a key never written misses, and so does a get called at
\* or after the ExpiryTime of an item that is still in the table.
C2_HitOnlyIfUnexpired ==
    \A c \in Clients :
        LET p == proc[c] IN
        (Returned(p, "get") /\ p.result[1] = "hit") =>
            /\ p.seen # NoItem
            /\ p.seen[1].ExpiryTime > p.timeNowInSeconds

\* C2 witness: a get called exactly at the ExpiryTime of an item still in the table misses
C2_Witness ==
    \E c \in Clients :
        LET p == proc[c] IN
        /\ Returned(p, "get") /\ ~IsGiven(p.recencyArg) /\ ~p.failed
        /\ p.seen # NoItem
        /\ p.seen[1].ExpiryTime = p.timeNowInSeconds
        /\ p.result = ReturnsNull

\* the invocation before p was a put that wrote the item in full and returned it
AfterFullWrite(p) ==
    /\ p.prev.op = "put"
    /\ p.prev.calls = <<"query", "put">>
    /\ p.prev.result[1] = "put"

\* C3: recency boundary.  After a put that performed the full write, a get with
\* recencyInSeconds = r > 0 whose query finds the item unexpired returns a hit if and only
\* if the time w between the put's timestamp and the get's call is less than r seconds.
C3_RecencyBoundary ==
    \A c \in Clients :
        LET p == proc[c] IN
        (/\ Returned(p, "get") /\ IsGiven(p.recencyArg) /\ p.recencyArg[1] > 0
         /\ AfterFullWrite(p)
         /\ p.seen # NoItem
         /\ p.seen[1].ExpiryTime > p.timeNowInSeconds) =>
            (p.result[1] = "hit" <=>
                p.timeNowInMilliseconds - p.seen[1].timeUpdated < p.recencyArg[1] * 1000)

\* C3 witness: w = r, the item unexpired, and the get misses
C3_Witness ==
    \E c \in Clients :
        LET p == proc[c] IN
        /\ Returned(p, "get") /\ IsGiven(p.recencyArg) /\ p.recencyArg[1] > 0
        /\ AfterFullWrite(p)
        /\ p.seen # NoItem
        /\ p.seen[1].ExpiryTime > p.timeNowInSeconds
        /\ p.timeNowInMilliseconds - p.seen[1].timeUpdated = p.recencyArg[1] * 1000
        /\ p.result = ReturnsNull

\* C4: with redundancyCounter off, a put whose query finds an unexpired item with the
\* value's fingerprint issues no call but that query, leaves the item as it is, and
\* returns the item's ExpiryTime: the one the put before it returned.
C4_IdempotentPut ==
    \A c \in Clients :
        LET p == proc[c] IN
        (Returned(p, "put") /\ manager.redundancyCounter = FALSE /\ MatchedAtQuery(p)) =>
            /\ p.calls = <<"query">>
            /\ p.result = PutResult(md5(p.key), p.seen[1].ExpiryTime)
            /\ ItemOf(table, md5(p.key)) \in {p.seen, NoItem}
            /\ (p.prev.op = "put" /\ p.prev.result[1] = "put") => p.result = p.prev.result

\* C4 witness: a second put of the same value returned the first put's result, no write made
C4_Witness ==
    \E c \in Clients :
        LET p == proc[c] IN
        /\ Returned(p, "put") /\ manager.redundancyCounter = FALSE /\ MatchedAtQuery(p)
        /\ AfterFullWrite(p)
        /\ p.result = p.prev.result
        /\ p.calls = <<"query">>
        /\ ItemOf(table, md5(p.key)) = p.seen
        /\ clock > p.seen[1].timeUpdated

\* a put, with redundancyCounter on, of the value the put before it cached, whose query
\* finds that item unexpired and whose store calls succeed
SecondIdenticalPut(p) ==
    /\ Returned(p, "put") /\ manager.redundancyCounter = TRUE /\ ~p.failed
    /\ p.prev.op = "put" /\ p.prev.result[1] = "put" /\ p.prev.value = p.value
    /\ MatchedAtQuery(p)

\* C5 as stated: with redundancyCounter on, a second identical put made while the item
\* is unexpired returns an ExpiryTime strictly greater than the first put's.
C5_StrictlyExtends ==
    \A c \in Clients :
        LET p == proc[c] IN
        SecondIdenticalPut(p) => (p.result[1] = "put" /\ p.result[3] > p.prev.result[3])

\* C5 as amended: the second identical put returns an ExpiryTime that is never smaller
\* than the first put's, and strictly greater exactly when the second put is called in a
\* later clock second than the one the first put's ExpiryTime was computed from.
C5_ExtendsBySecondsElapsed ==
    \A c \in Clients :
        LET p == proc[c] IN
        SecondIdenticalPut(p) =>
            /\ p.result[1] = "put"
            /\ p.result[3] >= p.prev.result[3]
            /\ p.result[3] > p.prev.result[3] <=>
                  p.timeNowInSeconds > p.prev.result[3] - p.seen[1].ttlInSeconds

\* C5 witness: a second identical put, a second later, returned a greater ExpiryTime
C5_Witness ==
    \E c \in Clients :
        LET p == proc[c] IN
        /\ SecondIdenticalPut(p)
        /\ p.result[3] > p.prev.result[3]

\* C6: a put of null or undefined returns null in the call itself, whatever the key and
\* the ttl, having issued no store call; the table is unchanged by it.
C6_NullValueRejected ==
    /\ [](\A c \in Clients :
            LET p == proc[c] IN
            (p.op = "put" /\ p.value \in {Null, Undefined}) =>
                (p.pc = "done" /\ p.result = ReturnsNull /\ p.calls = <<>>))
    /\ [][\A c \in Clients :
            (proc'[c] # proc[c] /\ proc'[c].op = "put" /\ proc'[c].value \in {Null, Undefined}) =>
                table' = table]_vars

\* C6 witness: a put of undefined with a ttl returned null while the table holds an item
C6_Witness ==
    \E c \in Clients :
        LET p == proc[c] IN
        /\ Returned(p, "put") /\ p.value = Undefined /\ IsGiven(p.ttlArg)
        /\ p.result = ReturnsNull
        /\ table # <<>>

\* C7: delete always completes with a boolean and never throws: it issues exactly one
\* delete call, returns true when the call succeeds and false when it fails.
C7_DeleteReturnsBoolean ==
    \A c \in Clients :
        LET p == proc[c] IN
        Returned(p, "delete") =>
            /\ p.result \in {ReturnsTrue, ReturnsFalse}
            /\ p.calls = <<"delete">>
            /\ p.result = ReturnsTrue <=> ~p.failed

\* C8: in a run of invocations one after another, a delete of a key that has an item,
\* whose store call succeeds, returns true, and every get of the key (with or without
\* recency) made after a delete returned true and before any later put is a miss.
C8_DeleteThenMiss ==
    \A c \in Clients :
        LET p == proc[c] IN
        /\ (Returned(p, "delete") /\ ~p.failed /\ p.seen # NoItem) => p.result = ReturnsTrue
        /\ (Returned(p, "get") /\ p.prev.afterDelete # "no") => p.result = ReturnsNull

\* C8 witness: a get reached the table after a delete of an existing, unexpired item
\* returned true, and missed
C8_Witness ==
    \E c \in Clients :
        LET p == proc[c] IN
        /\ Returned(p, "get") /\ ~p.failed /\ p.calls = <<"query">>
        /\ p.prev.op = "delete" /\ p.prev.result = ReturnsTrue /\ p.prev.afterDelete = "item"
        /\ p.result = ReturnsNull

\* C9: a get whose recencyInSeconds is given and is zero or negative returns null in
\* the call itself, having issued no store call.
C9_NonPositiveRecency ==
    \A c \in Clients :
        LET p == proc[c] IN
        (p.op = "get" /\ IsGiven(p.recencyArg) /\ p.recencyArg[1] <= 0) =>
            (p.pc = "done" /\ p.result = ReturnsNull /\ p.calls = <<>>)

\* C9 witness: a get with recencyInSeconds = 0 returned null though the table holds an
\* unexpired item
C9_Witness ==
    \E c \in Clients :
        /\ Returned(proc[c], "get") /\ proc[c].recencyArg = <<0>>
        /\ proc[c].result = ReturnsNull
        /\ \E h \in DOMAIN table : table[h].ExpiryTime > FloorSeconds(clock)

\* the ttl the claim expects a full write to store
ExpectedTTL(ttlArg) ==
    IF IsGiven(ttlArg) /\ ttlArg[1] > 0 THEN ttlArg[1] ELSE manager.defaultTTLInSeconds

\* C10: on the full-write path the item the table stores has ttlInSeconds = the ttl
\* passed if it is positive, the default ttl if it is omitted, zero or negative;
\* ExpiryTime = now in seconds + that ttl; both counters 0; timeCreated = timeUpdated =
\* now, the time put took before the write.
C10_FullWriteItem ==
    [][\A c \in Clients :
        (Awaiting(c, "put179") /\ proc'[c].resp # NoResponse /\ ~proc'[c].resp[1].err) =>
            LET p == proc[c]
                item == table'[md5(p.key)]
            IN /\ item.ttlInSeconds = ExpectedTTL(p.ttlArg)
               /\ item.ExpiryTime = FloorSeconds(item.timeUpdated) + ExpectedTTL(p.ttlArg)
               /\ item.downloads = 0
               /\ item.redundancy = 0
               /\ item.timeCreated = item.timeUpdated
               /\ p.timeNowInMilliseconds <= item.timeUpdated
               /\ item.timeUpdated <= clock
               /\ item.cacheValue = stringify(p.value)
      ]_vars

\* C10 witness: a full write with ttlInSeconds = 0 stored the default ttl
C10_Witness ==
    \E c \in Clients :
        LET p == proc[c] IN
        /\ Resumes(c, "put179") /\ ~p.resp[1].err
        /\ p.ttlArg = <<0>>
        /\ md5(p.key) \in DOMAIN table
        /\ table[md5(p.key)].ttlInSeconds = manager.defaultTTLInSeconds
        /\ table[md5(p.key)].timeUpdated > p.timeNowInMilliseconds

\* C11: when the query of a put throws, the table is not changed by the failed call, and
\* the put, on resuming, returns null with that query as its only store call: it
\* issues neither the update nor the full write, and the table stays as it is.
C11_DedupFailureAborts ==
    [][\A c \in Clients :
        /\ (Awaiting(c, "put130") /\ proc'[c].resp = ErrorResponse) => table' = table
        /\ (Resumes(c, "put130") /\ proc[c].resp[1].err /\ proc'[c] # proc[c]) =>
              /\ proc'[c].pc = "done"
              /\ proc'[c].result = ReturnsNull
              /\ proc'[c].calls = <<"query">>
              /\ table' = table
      ]_vars

\* C11 witness: a put whose query threw returned null, and the table still holds the
\* item of another value that a full write would have replaced
C11_Witness ==
    \E c \in Clients :
        LET p == proc[c] IN
        /\ Returned(p, "put") /\ p.failed /\ p.calls = <<"query">>
        /\ p.result = ReturnsNull
        /\ ItemOf(table, p.keyMD5) # NoItem
        /\ ItemOf(table, p.keyMD5)[1].ValueMD5 # p.valueMD5

\* C12: when the query of a get throws or returns no item, the get, on resuming, returns
\* null with that query as its only store call: no update of the download counter is
\* issued and the table stays as it is.
C12_FetchFailureIsMiss ==
    [][\A c \in Clients :
        (/\ Resumes(c, "get53")
         /\ proc[c].resp[1].err \/ Len(proc[c].resp[1].Items) = 0
         /\ proc'[c] # proc[c]) =>
              /\ proc'[c].pc = "done"
              /\ proc'[c].result = ReturnsNull
              /\ proc'[c].calls = <<"query">>
              /\ table' = table
      ]_vars

\* C12 witness: with the download counter on, a get whose query threw returned null
\* while the table holds an unexpired item for the key, its downloads still 0
C12_Witness ==
    \E c \in Clients :
        LET p == proc[c] IN
        /\ Returned(p, "get") /\ p.failed /\ p.calls = <<"query">>
        /\ p.result = ReturnsNull
        /\ manager.downLoadCounter = TRUE
        /\ ItemOf(table, p.keyMD5) # NoItem
        /\ ItemOf(table, p.keyMD5)[1].ExpiryTime > p.timeNowInSeconds
        /\ ItemOf(table, p.keyMD5)[1].downloads = 0

\* C13: a get whose query returned an item (dbItem is set) goes on to return, and what
\* it returns is the decoded cacheValue and the ExpiryTime of the item the table held
\* when it answered the query: whether the update of the download counter succeeded
\* or threw, and whatever another caller did to the item in between.
C13_BumpNotLoadBearing ==
    \A c \in Clients :
        LET p == proc[c] IN
        (p.op = "get" /\ p.dbItem # NoItem) =>
            /\ p.seen # NoItem
            /\ p.pc \in {"get81", "done"}
            /\ p.pc = "done" =>
                  p.result = GetResult(JSONparse(p.seen[1].cacheValue), p.seen[1].ExpiryTime)

\* C13 witness: between a get's query and its update another caller's delete removed the
\* item; the update threw, and the get returned the value and ExpiryTime it had fetched
C13_Witness ==
    \E c \in Clients, d \in Clients :
        LET p == proc[c] IN
        /\ c # d
        /\ Returned(p, "get") /\ p.calls = <<"query", "update">> /\ p.failed
        /\ p.result = GetResult(Num7, p.seen[1].ExpiryTime)
        /\ Returned(proc[d], "delete") /\ proc[d].result = ReturnsTrue
        /\ proc[d].seen = p.seen
        /\ ItemOf(table, p.keyMD5) = NoItem

\* C14: with redundancyCounter on, when the query of put(k, v, ttl2) matched an unexpired
\* item stored with ttlInSeconds = ttl1 and the update succeeds, the update adds exactly 1
\* to the item's redundancy, leaves its ttlInSeconds at ttl1 and sets its ExpiryTime to
\* now + ttl1, now being the time in seconds the put took when called; and the put
\* returns that ExpiryTime, whatever ttl2 is.
C14_ExtensionUsesStoredTTL ==
    /\ [](\A c \in Clients :
            LET p == proc[c] IN
            (Returned(p, "put") /\ p.calls = <<"query", "update">> /\ ~p.failed) =>
                /\ manager.redundancyCounter = TRUE
                /\ MatchedAtQuery(p)
                /\ p.result = PutResult(md5(p.key), p.timeNowInSeconds + p.seen[1].ttlInSeconds))
    /\ [][\A c \in Clients :
            (Awaiting(c, "put153") /\ proc'[c].resp # NoResponse /\ ~proc'[c].resp[1].err) =>
                LET p == proc[c]
                    old == table[md5(p.key)]
                    new == table'[md5(p.key)]
                    ttl1 == p.seen[1].ttlInSeconds
                IN /\ old.ttlInSeconds = ttl1
                   /\ new.redundancy = old.redundancy + 1
                   /\ new.ttlInSeconds = ttl1
                   /\ new.ExpiryTime = p.timeNowInSeconds + ttl1
                   /\ proc'[c].resp[1].Attributes[1].ExpiryTime = new.ExpiryTime
          ]_vars

\* C14 witness: a put with ttlInSeconds = 1 on an item stored with the default ttl, called
\* a second after it was stored, returned now + the default ttl
C14_Witness ==
    \E c \in Clients :
        LET p == proc[c] IN
        /\ Returned(p, "put") /\ p.calls = <<"query", "update">> /\ ~p.failed
        /\ p.ttlArg = <<1>>
        /\ p.seen[1].ttlInSeconds = manager.defaultTTLInSeconds
        /\ p.seen[1].redundancy = 0
        /\ p.timeNowInSeconds > FloorSeconds(p.seen[1].timeCreated)
        /\ p.result[3] = p.timeNowInSeconds + manager.defaultTTLInSeconds
        /\ ItemOf(table, p.keyMD5) # NoItem
        /\ ItemOf(table, p.keyMD5)[1].redundancy = 1

\* C15: every item in the table, whether a full write stored it or an update extended
\* it, has ExpiryTime = floor(timeUpdated / 1000) + ttlInSeconds, timeUpdated being in
\* milliseconds.
C15_ExpiryInvariant ==
    \A keyMD5 \in DOMAIN table :
        table[keyMD5].ExpiryTime =
            FloorSeconds(table[keyMD5].timeUpdated) + table[keyMD5].ttlInSeconds

\* C16: with redundancyCounter on, after a put that extended a matching item at time t,
\* a get with recencyInSeconds = r > 0 called less than r seconds after t, the item
\* unexpired and its query succeeding, returns a hit.  (t is no earlier than the start of
\* the second the put's ExpiryTime was computed from: ExpiryTime - ttlInSeconds.)
C16_RefreshIsRecent ==
    \A c \in Clients :
        LET p == proc[c] IN
        (/\ Returned(p, "get") /\ IsGiven(p.recencyArg) /\ p.recencyArg[1] > 0 /\ ~p.failed
         /\ manager.redundancyCounter = TRUE
         /\ p.prev.op = "put" /\ p.prev.calls = <<"query", "update">> /\ ~p.prev.failed
         /\ p.prev.result[1] = "put"
         /\ p.seen # NoItem
         /\ p.seen[1].ExpiryTime > p.timeNowInSeconds
         /\ p.timeNowInMilliseconds - ((p.prev.result[3] - p.seen[1].ttlInSeconds) * 1000)
                < p.recencyArg[1] * 1000) =>
            p.result[1] = "hit"

\* the step is the table storing the full write of some put under keyMD5
IsFullWrite(keyMD5) ==
    \E c \in Clients :
        /\ Awaiting(c, "put179") /\ proc[c].keyMD5 = keyMD5
        /\ proc'[c].resp # NoResponse /\ ~proc'[c].resp[1].err
        /\ table'[keyMD5] = proc[c].Item[1]

\* C17 as stated: in no step that leaves the item of a key in the table does the item's
\* downloads or redundancy decrease.
C17_CountersNeverDecrease ==
    [][\A keyMD5 \in (DOMAIN table) \cap (DOMAIN table') :
          /\ table'[keyMD5].downloads >= table[keyMD5].downloads
          /\ table'[keyMD5].redundancy >= table[keyMD5].redundancy
      ]_vars

\* C17 as amended: in a step that leaves the item of a key in the table, downloads and
\* redundancy each stay the same or grow by 1, except when the step is the full write of
\* a put (whose query found no unexpired item with the value's fingerprint), which
\* replaces the item and sets both to 0.
C17_CountersDecreaseOnlyAtFullWrite ==
    [][\A keyMD5 \in (DOMAIN table) \cap (DOMAIN table') :
          IF IsFullWrite(keyMD5)
          THEN table'[keyMD5].downloads = 0 /\ table'[keyMD5].redundancy = 0
          ELSE /\ table'[keyMD5].downloads - table[keyMD5].downloads \in {0, 1}
               /\ table'[keyMD5].redundancy - table[keyMD5].redundancy \in {0, 1}
      ]_vars

\* C17 witness: an item that a get and an extending put have each counted once
C17_Witness ==
    \E keyMD5 \in DOMAIN table :
        /\ table[keyMD5].downloads = 1
        /\ table[keyMD5].redundancy = 1

\* C18 as stated: in no step that leaves the item of a key in the table does the item's
\* timeCreated change.
C18_CreatedWriteOnce ==
    [][\A keyMD5 \in (DOMAIN table) \cap (DOMAIN table') :
          table'[keyMD5].timeCreated = table[keyMD5].timeCreated
      ]_vars

\* C18 as amended: in a step that leaves the item of a key in the table, timeCreated
\* keeps its value (through every get and every extension), except when the step is the
\* full write of a put, which replaces the item and sets timeCreated to the time that
\* put took before writing.
C18_CreatedChangesOnlyAtFullWrite ==
    [][\A keyMD5 \in (DOMAIN table) \cap (DOMAIN table') :
          table'[keyMD5].timeCreated # table[keyMD5].timeCreated =>
              /\ IsFullWrite(keyMD5)
              /\ table'[keyMD5].timeCreated = table'[keyMD5].timeUpdated
              /\ table'[keyMD5].timeCreated <= clock
      ]_vars

\* C18 witness: an item extended a second or more after it was created still has the
\* timeCreated of its full write
C18_Witness ==
    \E c \in Clients :
        LET p == proc[c] IN
        /\ Returned(p, "put") /\ p.calls = <<"query", "update">> /\ ~p.failed
        /\ ItemOf(table, p.keyMD5) # NoItem
        /\ ItemOf(table, p.keyMD5)[1].redundancy >= 1
        /\ ItemOf(table, p.keyMD5)[1].timeCreated = p.seen[1].timeCreated
        /\ ItemOf(table, p.keyMD5)[1].timeCreated < p.timeNowInSeconds * 1000

\* an item is Stale once the time in seconds has reached its ExpiryTime
IsStale(item, timeNowInMilliseconds) == FloorSeconds(timeNowInMilliseconds) >= item.ExpiryTime

\* C19: in any step that takes the item of a key from Stale to not Stale, the step is the
\* full write of a put: no update of a get or of an extending put does it, however the
\* calls and the passing of time interleave.
C19_StaleToFreshOnlyByFullWrite ==
    [][\A keyMD5 \in (DOMAIN table) \cap (DOMAIN table') :
          (IsStale(table[keyMD5], clock) /\ ~IsStale(table'[keyMD5], clock')) =>
              IsFullWrite(keyMD5)
      ]_vars

\* C20: two puts of the same value on the same key, in flight at once, whose queries both
\* returned no match: both go on to the full write, and when neither write throws both
\* return {keyMD5, ExpiryTime} and the item they leave is the one of the two that was
\* written last, its redundancy 0: the second identical put is not counted.
C20_ConcurrentPutsUndercount ==
    \A c \in Clients, d \in Clients :
        LET p == proc[c]
            q == proc[d]
        IN (/\ c # d
            /\ p.op = "put" /\ q.op = "put" /\ p.key = q.key /\ p.value = q.value
            /\ p.prev.op = "none" /\ q.prev.op = "none"
            /\ Len(p.calls) = 2 /\ Len(q.calls) = 2
            /\ p.dbItem = NoItem /\ q.dbItem = NoItem) =>
               /\ p.calls = <<"query", "put">> /\ q.calls = <<"query", "put">>
               /\ (Returned(p, "put") /\ Returned(q, "put") /\ ~p.failed /\ ~q.failed) =>
                     /\ p.result = PutResult(p.keyMD5, p.Item[1].ExpiryTime)
                     /\ q.result = PutResult(q.keyMD5, q.Item[1].ExpiryTime)
                     /\ ops = 2 => ItemOf(table, p.keyMD5) \in {NoItem, p.Item, q.Item}

\* C20 witness: with redundancyCounter on, two puts of 7 on the same key, neither
\* completed when the other was called, both returned {keyMD5, ExpiryTime} after a full
\* write, and the item in the table has redundancy 0
C20_Witness ==
    /\ manager.redundancyCounter = TRUE
    /\ ops = 2
    /\ Returned(proc[1], "put") /\ Returned(proc[2], "put")
    /\ proc[1].key = proc[2].key /\ proc[1].value = Num7 /\ proc[2].value = Num7
    /\ proc[1].prev.op = "none" /\ proc[2].prev.op = "none"
    /\ proc[1].calls = <<"query", "put">> /\ proc[2].calls = <<"query", "put">>
    /\ proc[1].seen = NoItem /\ proc[2].seen = NoItem
    /\ proc[1].result[1] = "put" /\ proc[2].result[1] = "put"
    /\ ItemOf(table, proc[1].keyMD5) # NoItem
    /\ ItemOf(table, proc[1].keyMD5)[1].redundancy = 0

\* C21: a step of an invocation on key k1 neither changes nor reads the item of another
\* key k2: the table keeps k2's item as it is (and k2's history is untouched), and what
\* a store call returns to the invocation is taken from the item under md5(k1).  Every
\* item is stored under the fingerprint of its own cacheKey, so a hit of get(k) is the
\* value of a put on k.
C21_CrossKeyIndependence ==
    /\ [](/\ \A keyMD5 \in DOMAIN table :
                table[keyMD5].KeyMD5 = keyMD5 /\ keyMD5 = md5(table[keyMD5].cacheKey)
          /\ \A c \in Clients :
                (proc[c].seen # NoItem) => proc[c].seen[1].cacheKey = proc[c].key)
    /\ [][\A c \in Clients, k2 \in Keys :
            (proc'[c] # proc[c] /\ proc'[c].key # k2) =>
                LET k1 == proc'[c].key
                    resp == proc'[c].resp
                    mine == ItemOf(table, md5(k1))
                IN /\ ItemOf(table', md5(k2)) = ItemOf(table, md5(k2))
                   /\ last'[k2] = last[k2]
                   /\ (proc[c].resp = NoResponse /\ resp # NoResponse /\ ~resp[1].err) =>
                         /\ Len(resp[1].Items) = 1 =>
                               /\ mine # NoItem
                               /\ resp[1].Items[1].ExpiryTime = mine[1].ExpiryTime
                               /\ proc'[c].seen = mine
                         /\ Len(resp[1].Attributes) = 1 =>
                               /\ mine # NoItem
                               /\ table' = [table EXCEPT ![md5(k1)] = table'[md5(k1)]]
          ]_vars

\* C21 witness: while a put on KeyB is in flight, its item already stored, a delete on
\* KeyA that removed KeyA's item has returned true; KeyB's item is the one the put wrote
C21_Witness ==
    \E c \in Clients, d \in Clients :
        /\ Returned(proc[c], "delete") /\ proc[c].key = KeyA
        /\ proc[c].result = ReturnsTrue /\ proc[c].seen # NoItem
        /\ proc[d].op = "put" /\ proc[d].key = KeyB
        /\ Resumes(d, "put179") /\ ~proc[d].resp[1].err
        /\ ItemOf(table, md5(KeyA)) = NoItem
        /\ ItemOf(table, md5(KeyB)) = proc[d].Item

\* C22: the only step of a get that changes the table is its update of the download
\* counter when it succeeds: it adds exactly 1 to downloads of the key's item and leaves
\* every other field and every other item as they are.  A get with downLoadCounter off,
\* or one whose query returned no item, issues no update: it leaves the table unchanged.
C22_GetChangesOnlyDownloads ==
    /\ [](\A c \in Clients :
            LET p == proc[c] IN
            (p.op = "get" /\ (manager.downLoadCounter = FALSE \/ p.dbItem = NoItem)) =>
                p.calls \in {<<>>, <<"query">>})
    /\ [][\A c \in Clients :
            (proc'[c] # proc[c] /\ proc'[c].op = "get") =>
                IF Awaiting(c, "get81") /\ ~proc'[c].resp[1].err
                THEN /\ proc[c].keyMD5 \in DOMAIN table
                     /\ table' = [table EXCEPT ![proc[c].keyMD5].downloads = @ + 1]
                ELSE table' = table
          ]_vars

\* C22 witness: a get hit an item that had been extended once; its update succeeded and
\* the item is the one the query saw, but for downloads, which is one more
C22_Witness ==
    \E c \in Clients :
        LET p == proc[c] IN
        /\ Returned(p, "get") /\ p.result[1] = "hit"
        /\ p.calls = <<"query", "update">> /\ ~p.failed
        /\ p.seen[1].redundancy = 1
        /\ ItemOf(table, p.keyMD5) = <<[p.seen[1] EXCEPT !.downloads = @ + 1]>>

\* the store calls an invocation may have issued, in order: never the same call twice
AllowedCalls(op) ==
    CASE op = "get"    -> {<<>>, <<"query">>, <<"query", "update">>}
      [] op = "put"    -> {<<>>, <<"query">>, <<"query", "update">>, <<"query", "put">>}
      [] op = "delete" -> {<<"delete">>}
      [] OTHER         -> {<<>>}

\* C23: (first definition) an invocation issues each store call at most once, whether it
\* succeeds or throws: a get at most one query then at most one update, a put at most
\* one query then at most one of update and full write, a delete exactly one delete; and
\* every invocation, once called, returns a result.
C23_OneAttemptAndCompletion ==
    /\ [](\A c \in Clients :
            /\ proc[c].calls \in AllowedCalls(proc[c].op)
            /\ proc[c].pc = "done" => proc[c].result \notin {NoResult, ThrowsReferenceError})
    /\ \A c \in Clients : (proc[c].pc \notin {"idle", "done"}) ~> (proc[c].pc = "done")

\* C23 witness: a put whose full write threw has returned null, the write issued once
C23_Witness ==
    \E c \in Clients :
        LET p == proc[c] IN
        /\ Returned(p, "put") /\ p.calls = <<"query", "put">>
        /\ p.resp = ErrorResponse
        /\ p.result = ReturnsNull

\* C24: whenever the table applies the update of a put(k, v) that extends a matching
\* item, the item it is applied to has ValueMD5 = md5(stringify(v)) and the ttlInSeconds
\* that the put's query returned, however the calls of concurrent puts on k interleave.
C24_ExtensionOnlyOfMatchedValue ==
    [][\A c \in Clients :
        (Awaiting(c, "put153") /\ proc'[c].resp # NoResponse /\ ~proc'[c].resp[1].err) =>
            LET p == proc[c]
                item == table[p.keyMD5]
            IN /\ item.ValueMD5 = md5(stringify(p.value))
               /\ item.ttlInSeconds = p.dbItem[1].ttlInSeconds
      ]_vars

\* C25: with redundancyCounter on, when the update of a put that matched an unexpired
\* item throws, the table is not changed by the failed call, and the put, on resuming,
\* returns null having issued the query and that update only: no full write follows and
\* the table stays as it is.
C25_ExtensionFailureAborts ==
    [][\A c \in Clients :
        /\ (Awaiting(c, "put153") /\ proc'[c].resp = ErrorResponse) => table' = table
        /\ (Resumes(c, "put153") /\ proc[c].resp[1].err /\ proc'[c] # proc[c]) =>
              /\ proc'[c].pc = "done"
              /\ proc'[c].result = ReturnsNull
              /\ proc'[c].calls = <<"query", "update">>
              /\ table' = table
      ]_vars

\* C25 witness: a put whose update threw returned null, and the item is still the one
\* its query matched, unexpired
C25_Witness ==
    \E c \in Clients :
        LET p == proc[c] IN
        /\ Returned(p, "put") /\ p.calls = <<"query", "update">> /\ p.resp = ErrorResponse
        /\ manager.redundancyCounter = TRUE
        /\ p.result = ReturnsNull
        /\ ItemOf(table, p.keyMD5) = p.seen
        /\ p.seen # NoItem
        /\ p.seen[1].ExpiryTime > FloorSeconds(clock)

\* C26: when delete(k) is called while a put(k, ...) of another caller is in flight, and
\* the delete returns true, then once both invocations have completed, no other
\* invocation having been made, the table holds no item for k.
C26_DeleteNotUndone ==
    \A c \in Clients, d \in Clients :
        (/\ Returned(proc[c], "delete") /\ proc[c].result = ReturnsTrue
         /\ d \in proc[c].putsInFlight
         /\ Returned(proc[d], "put") /\ proc[d].key = proc[c].key
         /\ ops = 2) =>
            ItemOf(table, md5(proc[c].key)) = NoItem

====
